---- MODULE Spec2Model ----
(***************************************************************************)
(* Model of cly's _rlext.c: the readline extension module that binds keys  *)
(* to Python callables (bind_key / bind_key_handler), sets or reads the    *)
(* cursor (cursor) and forces a redisplay (force_redisplay).               *)
(*                                                                         *)
(* One interactive session is modelled: a Python script holding the GIL    *)
(* calls the module's functions and calls readline; inside readline the    *)
(* engine's loop runs without the GIL and calls bind_key_handler for the   *)
(* keys bound with rl_bind_key; the callback it invokes is Python code     *)
(* again and may call the module's functions itself.                       *)
(***************************************************************************)
EXTENDS Integers, Sequences, FiniteSets

\* ---------------------------------------------------------------- bounds
MaxRefs == 2        \* registrations of one callable the model follows
MaxLen == 2         \* longest line buffer (rl_end) of the model

\* ------------------------------------------------------------- constants
NumSlots == 256     \* bind_key_map[256]

NULL == "NULL"
Slots == 0 .. (NumSlots - 1)
Callables == {"h1", "h2"}
Objects == Callables \cup {"obj"}          \* "obj" is not callable
Tokens == {"tstate_main"}                  \* the session's PyThreadState
KeyInputs == {-1, 0, NumSlots - 1, NumSlots}
Counts == {1, 3}                           \* repeat counts of a key press
Offsets == (-2) .. (MaxLen + 2)

NoError == "none"
ErrNotCallable == "TypeError: bind_key requires callable as second argument"
ErrKeyOrdinal == "TypeError: bind_key requires key ordinal as first argument"
ErrParse == "TypeError: PyArg_ParseTuple"
ErrHandler == "Exception: raised by the callback"

\* The argument tuples the callers pass.
BindArgs == {<<k, o>> : k \in KeyInputs, o \in Objects} \cup {<<0>>}
CursorArgs == {<< >>} \cup {<<p>> : p \in Offsets} \cup {<<0, 0>>}
\* The lines the engine can hold: <<rl_point, rl_end>>.
Edits == {<<p, e>> \in (0 .. MaxLen) \X (0 .. MaxLen) : p <= e}

\* The smaller inputs of the specification that follows the cursor (SpecCursor)
\* and of the one that follows the key bindings (Spec).
FewBindArgs == {<<0, "h1">>, <<-1, "h1">>, <<0, "obj">>}
FewCursorArgs == {<< >>, <<MaxLen + 1>>, <<0, 0>>}
FewEdits == {<<0, 0>>, <<0, 1>>, <<1, 1>>}

VARIABLES
    bind_key_map, \* the slots written so far (the others are still zeroed)
    keymap,      \* keys the engine calls bind_key_handler for (rl_bind_key)
    refs,        \* references this module holds on each callable
    current,     \* the interpreter's current thread state (NULL: GIL not held)
    err,         \* the interpreter's error indicator
    pc,          \* where control is
    caller,      \* where a module function returns to: "py" or "cb"
    b_args,      \* bind_key: args
    b_key,       \* bind_key: key
    b_cb,        \* bind_key: callback
    d_count,     \* bind_key_handler: count
    d_key,       \* bind_key_handler: key
    d_result,    \* bind_key_handler: result
    rl_point,    \* readline's cursor offset
    rl_end,      \* readline's buffer length
    forced,      \* the display was force-updated since the last edit
    ret,         \* the value last returned by a module function or by dispatch
    last_call,   \* the module function last called, with its arguments
    invoked,     \* the calls of callbacks made by the current dispatch
    prev_failed, \* history: this key press follows a dispatch whose call failed
    bound,       \* history: the callable last registered for each key
    replaced     \* history: the callables registered for a key and replaced

vars == <<bind_key_map, keymap, refs, current, err, pc, caller, b_args,
          b_key, b_cb, d_count, d_key, d_result, rl_point, rl_end, forced,
          ret, last_call, invoked, prev_failed, bound, replaced>>

table == <<bind_key_map>>

\* A slot nobody wrote: the array is static, so zero-initialised (lines 27-30).
EmptySlot == [callback |-> NULL, tstate |-> NULL]

\* bind_key_map[i], for i in 0..255.
SlotAt(map, i) == IF i \in DOMAIN map THEN map[i] ELSE EmptySlot
callback(i) == SlotAt(bind_key_map, i).callback
tstate(i) == SlotAt(bind_key_map, i).tstate

\* The array with slot i's members assigned.
WithCallback(map, i, cb) ==
    [j \in DOMAIN map \cup {i} |->
        IF j = i THEN [SlotAt(map, i) EXCEPT !.callback = cb] ELSE map[j]]
WithTstate(map, i, ts) ==
    [j \in DOMAIN map \cup {i} |->
        IF j = i THEN [SlotAt(map, i) EXCEPT !.tstate = ts] ELSE map[j]]

\* The callable last registered for key i, and those it replaced (history).
Bound(i) == IF i \in DOMAIN bound THEN bound[i] ELSE NULL
Replaced(i) == IF i \in DOMAIN replaced THEN replaced[i] ELSE {}
bindLocals == <<b_args, b_key, b_cb>>
dispLocals == <<d_count, d_key, d_result>>
engine == <<rl_point, rl_end, forced>>
history == <<prev_failed, bound, replaced>>

Init ==
    /\ bind_key_map = << >>
    /\ keymap = {}
    /\ refs = [h \in Callables |-> 0]
    /\ current = "tstate_main"
    /\ err = NoError
    /\ pc = "py"
    /\ caller = "py"
    /\ b_args = << >>
    /\ b_key = 0
    /\ b_cb = NULL
    /\ d_count = 0
    /\ d_key = 0
    /\ d_result = "unset"
    /\ rl_point = 0
    /\ rl_end = 0
    /\ forced = FALSE
    /\ ret = <<"unset">>
    /\ last_call = << >>
    /\ invoked = << >>
    /\ prev_failed = FALSE
    /\ bound = << >>
    /\ replaced = << >>

\* Python code is running: the script, or a callback.
InPython == pc \in {"py", "cb"}

\* ------------------------------------------------------- force_redisplay
ForceRedisplay ==
    /\ InPython
    /\ err = NoError
    /\ forced' = TRUE
    /\ ret' = <<"None">>
    /\ last_call' = <<"force_redisplay", << >> >>
    /\ UNCHANGED <<table, keymap, refs, current, err, pc, caller, bindLocals,
                   dispLocals, rl_point, rl_end, invoked, history>>

\* -------------------------------------------------------------- bind_key
\* PyArg_ParseTuple(args, "iO:bind_key", &key, &callback): two arguments.
ParseBindArgs(args) == Len(args) = 2

PyCallable_Check(o) == o \in Callables

\* Mutant: the upper limit is off by one.
KeyOutOfRange_OffByOne(key) == key < 0 \/ key > NumSlots

\* The range test of line 64.
KeyOutOfRange(key) == key < 0 \/ key > NumSlots - 1

\* The error bind_key fails with on these arguments (NoError: it goes on).
BindKeyError(args) ==
    IF ~ParseBindArgs(args) THEN ErrParse
    ELSE IF ~PyCallable_Check(args[2]) THEN ErrNotCallable
    ELSE IF KeyOutOfRange(args[1]) THEN ErrKeyOrdinal
    ELSE NoError

\* Python calls bind_key(*a).
BindKeyCall(a) ==
    /\ InPython
    /\ err = NoError
    /\ (BindKeyError(a) = NoError => refs[a[2]] < MaxRefs)
    /\ pc' = "bk59"
    /\ caller' = pc
    /\ b_args' = a
    /\ last_call' = <<"bind_key", a>>
    /\ ret' = <<"unset">>
    /\ UNCHANGED <<table, keymap, refs, current, err, b_key, b_cb, dispLocals,
                   engine, invoked, history>>

\* Mutant: rl_bind_key is called as soon as the key is known to be in range,
\* before the callable is checked and the slot written.
BindKeyCheck_InformFirst ==
    /\ pc = "bk59"
    /\ LET e == BindKeyError(b_args) IN
       IF e # NoError
       THEN /\ err' = e
            /\ ret' = <<"NULL">>
            /\ pc' = caller
            /\ b_args' = << >>
            /\ keymap' = IF ParseBindArgs(b_args) /\ ~KeyOutOfRange(b_args[1])
                         THEN keymap \cup {b_args[1]} ELSE keymap
            /\ UNCHANGED <<b_key, b_cb>>
       ELSE /\ b_key' = b_args[1]
            /\ b_cb' = b_args[2]
            /\ pc' = "bk68"
            /\ keymap' = keymap \cup {b_args[1]}
            /\ UNCHANGED <<err, ret, b_args>>
    /\ UNCHANGED <<table, refs, current, caller, dispLocals,
                   engine, last_call, invoked, history>>

\* Lines 59-67: parse the arguments, refuse a non-callable, refuse a key
\* outside 0..255.
BindKeyCheck ==
    /\ pc = "bk59"
    /\ LET e == BindKeyError(b_args) IN
       IF e # NoError
       THEN /\ err' = e
            /\ ret' = <<"NULL">>
            /\ pc' = caller
            /\ b_args' = << >>
            /\ UNCHANGED <<b_key, b_cb>>
       ELSE /\ b_key' = b_args[1]
            /\ b_cb' = b_args[2]
            /\ pc' = "bk68"
            /\ UNCHANGED <<err, ret, b_args>>
    /\ UNCHANGED <<table, keymap, refs, current, caller, dispLocals,
                   engine, last_call, invoked, history>>

\* Mutant: a slot that holds a callable keeps it (the first registration wins).
BindKeyStore_KeepFirst ==
    /\ pc = "bk68"
    /\ bind_key_map' = IF callback(b_key) = NULL
                       THEN WithTstate(WithCallback(bind_key_map, b_key, b_cb),
                                       b_key, current)
                       ELSE bind_key_map
    /\ pc' = "bk70"
    /\ UNCHANGED <<keymap, refs, current, err, caller, bindLocals, dispLocals,
                   engine, ret, last_call, invoked, history>>

\* Lines 68-69: the slot takes the callable and the current thread state.
BindKeyStore ==
    /\ pc = "bk68"
    /\ bind_key_map' = WithTstate(WithCallback(bind_key_map, b_key, b_cb),
                                  b_key, current)
    /\ pc' = "bk70"
    /\ UNCHANGED <<keymap, refs, current, err, caller, bindLocals, dispLocals,
                   engine, ret, last_call, invoked, history>>

\* Line 70: rl_bind_key(key, bind_key_handler).
BindKeyInform ==
    /\ pc = "bk70"
    /\ keymap' = keymap \cup {b_key}
    /\ pc' = "bk71"
    /\ UNCHANGED <<table, refs, current, err, caller, bindLocals, dispLocals,
                   engine, ret, last_call, invoked, history>>

\* The reference counts after line 71, Py_XINCREF of the stored callable.
\* Nothing in bind_key touches the count of the callable that was in the slot.
RefsAfterBind(r, new) == [r EXCEPT ![new] = @ + 1]

\* Lines 71-75: take a reference on the stored callable, return None.
BindKeyReturn ==
    /\ pc = "bk71"
    /\ refs' = RefsAfterBind(refs, callback(b_key))
    /\ ret' = <<"None">>
    /\ pc' = caller
    /\ bound' = [j \in DOMAIN bound \cup {b_key} |->
                    IF j = b_key THEN b_cb ELSE bound[j]]
    /\ replaced' = [j \in DOMAIN replaced \cup {b_key} |->
                    IF j = b_key
                    THEN (Replaced(j) \cup {Bound(j)}) \ {NULL, b_cb}
                    ELSE replaced[j]]
    /\ b_args' = << >>
    /\ b_key' = 0
    /\ b_cb' = NULL
    /\ UNCHANGED <<table, keymap, current, err, caller, dispLocals,
                   engine, last_call, invoked, prev_failed>>

\* ---------------------------------------------------------------- cursor
\* Mutant: the offset is parsed into a zeroed local, not into rl_point.
ParsedPoint_Zeroed(args, point) == IF Len(args) = 1 THEN args[1] ELSE 0

\* Mutant: the test of line 90 is missing.
ClampPoint_NoLower(point, end) == IF point > end THEN end ELSE point

\* PyArg_ParseTuple(args, "|i:set_cursor", &rl_point): at most one argument;
\* rl_point is written only when the argument is there.
ParseCursorArgs(args) == Len(args) <= 1

ParsedPoint(args, point) == IF Len(args) = 1 THEN args[1] ELSE point

\* Lines 88-91.
ClampPoint(point, end) ==
    LET a == IF point > end THEN end ELSE point
    IN  IF a < 0 THEN 0 ELSE a

Cursor(a) ==
    /\ InPython
    /\ err = NoError
    /\ last_call' = <<"cursor", a>>
    /\ IF ~ParseCursorArgs(a)
       THEN /\ err' = ErrParse
            /\ ret' = <<"NULL">>
            /\ UNCHANGED rl_point
       ELSE /\ rl_point' = ClampPoint(ParsedPoint(a, rl_point), rl_end)
            /\ ret' = <<"int", rl_point'>>
            /\ UNCHANGED err
    /\ UNCHANGED <<table, keymap, refs, current, pc, caller, bindLocals,
                   dispLocals, rl_end, forced, invoked, history>>

\* ------------------------------------------------------ the Python caller
\* The script, or the callback, catches the exception a call raised.
PyExcept ==
    /\ InPython
    /\ err # NoError
    /\ err' = NoError
    /\ UNCHANGED <<table, keymap, refs, current, pc, caller, bindLocals,
                   dispLocals, engine, ret, last_call, invoked, history>>

\* The script calls readline (raw_input): the interpreter saves the thread
\* state, releases the GIL, and the engine starts a new line.
PyReadline ==
    /\ pc = "py"
    /\ err = NoError
    /\ pc' = "rl"
    /\ current' = NULL
    /\ rl_point' = 0
    /\ rl_end' = 0
    /\ forced' = FALSE
    /\ last_call' = << >>
    /\ ret' = <<"unset">>
    /\ UNCHANGED <<table, keymap, refs, err, caller, bindLocals, dispLocals,
                   invoked, history>>

\* ------------------------------------------------------------ the engine
\* The engine edits the line: the cursor stays within the buffer.
EngineEdit(p, e) ==
    /\ pc = "rl"
    /\ 0 <= p /\ p <= e
    /\ <<p, e>> # <<rl_point, rl_end>>
    /\ rl_point' = p
    /\ rl_end' = e
    /\ forced' = FALSE
    /\ d_count' = 0
    /\ d_key' = 0
    /\ d_result' = "unset"
    /\ invoked' = << >>
    /\ ret' = <<"unset">>
    /\ prev_failed' = FALSE
    /\ UNCHANGED <<table, keymap, refs, current, err, pc, caller, bindLocals,
                   last_call, bound, replaced>>

\* The line is accepted: readline returns, the interpreter takes the GIL back.
EngineReturn ==
    /\ pc = "rl"
    /\ pc' = "py"
    /\ current' = "tstate_main"
    /\ ret' = <<"unset">>
    /\ d_count' = 0
    /\ d_key' = 0
    /\ d_result' = "unset"
    /\ invoked' = << >>
    /\ prev_failed' = FALSE
    /\ UNCHANGED <<table, keymap, refs, err, caller, bindLocals,
                   engine, last_call, bound, replaced>>

\* The engine reads key k with repeat count c and k is bound to
\* bind_key_handler: it calls bind_key_handler(c, k).
KeyPress(c, k) ==
    /\ pc = "rl"
    /\ k \in keymap
    /\ pc' = "h38"
    /\ d_count' = c
    /\ d_key' = k
    /\ d_result' = "unset"
    /\ invoked' = << >>
    /\ ret' = <<"unset">>
    /\ last_call' = << >>
    /\ prev_failed' = (d_result = NULL)
    /\ UNCHANGED <<table, keymap, refs, current, err, caller, bindLocals,
                   engine, bound, replaced>>

\* ------------------------------------------------------ bind_key_handler
\* Mutant: the callable is called without PyEval_RestoreThread.
DispatchRestore_Omitted ==
    /\ pc = "h38"
    /\ pc' = "h39"
    /\ UNCHANGED <<table, keymap, refs, current, err, caller, bindLocals,
                   dispLocals, engine, ret, last_call, invoked, history>>

\* Line 38: PyEval_RestoreThread(bind_key_map[key].tstate). A NULL thread
\* state is a fatal error; taking the GIL while holding it never returns.
DispatchRestore ==
    /\ pc = "h38"
    /\ IF tstate(d_key) = NULL \/ current # NULL
       THEN pc' = "abort" /\ UNCHANGED current
       ELSE pc' = "h39" /\ current' = tstate(d_key)
    /\ UNCHANGED <<table, keymap, refs, err, caller, bindLocals, dispLocals,
                   engine, ret, last_call, invoked, history>>

\* Mutant: the two arguments in the other order.
BuildArgs_Swapped(count, key) == <<key, count>>

\* Line 39: Py_BuildValue("(ii)", count, key).
BuildArgs(count, key) == <<count, key>>

\* Lines 39-40: build the arguments and call the slot's callable.
DispatchCall ==
    /\ pc = "h39"
    /\ IF callback(d_key) = NULL
       THEN pc' = "abort" /\ UNCHANGED invoked
       ELSE /\ pc' = "cb"
            /\ invoked' = Append(invoked, [fn |-> callback(d_key),
                                           args |-> BuildArgs(d_count, d_key)])
    /\ UNCHANGED <<table, keymap, refs, current, err, caller, bindLocals,
                   dispLocals, engine, ret, last_call, history>>

\* The callable returns a value, or raises (an exception it did not catch
\* goes up with it).
HandlerFinish(outcome) ==
    /\ pc = "cb"
    /\ IF outcome = "value"
       THEN /\ err = NoError
            /\ d_result' = "value"
            /\ UNCHANGED err
       ELSE /\ d_result' = NULL
            /\ err' = IF err = NoError THEN ErrHandler ELSE err
    /\ pc' = "h41"
    /\ UNCHANGED <<table, keymap, refs, current, caller, bindLocals, d_count,
                   d_key, engine, ret, last_call, invoked, history>>

\* Mutant: no PyErr_Clear().
ErrorAfterCall_NoClear(result, e) == e

\* Lines 41-43: PyErr_Clear() when the call returned NULL.
ErrorAfterCall(result, e) == IF result = NULL THEN NoError ELSE e

\* Line 49.
DispatchStatus(result) == 0

\* Lines 41-49: drop the result, clear the error of a failed call, save the
\* thread state into the slot (PyEval_SaveThread releases the GIL; with no
\* current thread state it is a fatal error), return.
DispatchFinish ==
    /\ pc = "h41"
    /\ IF current = NULL
       THEN /\ pc' = "abort"
            /\ err' = ErrorAfterCall(d_result, err)
            /\ UNCHANGED <<bind_key_map, current, ret>>
       ELSE /\ err' = ErrorAfterCall(d_result, err)
            /\ bind_key_map' = WithTstate(bind_key_map, d_key, current)
            /\ current' = NULL
            /\ ret' = <<"int", DispatchStatus(d_result)>>
            /\ pc' = "rl"
    /\ UNCHANGED <<keymap, refs, caller, bindLocals, dispLocals,
                   engine, last_call, invoked, history>>

\* The steps of the session, the callers drawing their arguments from bargs
\* and cargs and the engine its lines from edits.
Step(bargs, cargs, edits) ==
    \/ \E a \in bargs : BindKeyCall(a)
    \/ BindKeyCheck
    \/ BindKeyStore
    \/ BindKeyInform
    \/ BindKeyReturn
    \/ \E a \in cargs : Cursor(a)
    \/ ForceRedisplay
    \/ PyExcept
    \/ PyReadline
    \/ \E l \in edits : EngineEdit(l[1], l[2])
    \/ EngineReturn
    \/ \E c \in Counts, k \in keymap : KeyPress(c, k)
    \/ DispatchRestore
    \/ DispatchCall
    \/ \E o \in {"value", "raise"} : HandlerFinish(o)
    \/ DispatchFinish

Next == Step(BindArgs, FewCursorArgs, FewEdits)
NextCursor == Step(FewBindArgs, CursorArgs, Edits)

Spec == Init /\ [][Next]_vars
SpecCursor == Init /\ [][NextCursor]_vars

\* ================================================================ claims
BindPcs == {"bk59", "bk68", "bk70", "bk71"}
SlotsHolding(h) == {i \in DOMAIN bind_key_map : bind_key_map[i].callback = h}
Min(a, b) == IF a < b THEN a ELSE b
Max(a, b) == IF a > b THEN a ELSE b

C2_FailedRegistrationMutatesNothing ==
    [][ (/\ pc = "bk59"
         /\ Len(b_args) = 2
         /\ (b_args[1] < 0 \/ b_args[1] > 255 \/ b_args[2] \notin Callables))
        => /\ pc' = caller
           /\ ret' = <<"NULL">>
           /\ err' = IF b_args[2] \notin Callables THEN ErrNotCallable
                     ELSE ErrKeyOrdinal
           /\ \A i \in Slots : SlotAt(bind_key_map', i) = SlotAt(bind_key_map, i)
           /\ keymap' = keymap
           /\ refs' = refs
      ]_vars

C2_Witness ==
    /\ InPython
    /\ ret = <<"NULL">>
    /\ err = ErrKeyOrdinal
    /\ last_call = <<"bind_key", <<NumSlots, "h1">> >>
    /\ callback(NumSlots - 1) = "h2"
    /\ callback(0) = NULL

\* C3: a press of key k calls the callable last registered for k and never
\* one that a later registration for k replaced; a registration for k leaves
\* the slots and the interception of the other keys as they were.
C3_ReRegistrationReplaces ==
    [][ /\ (pc = "h39" =>
              /\ Len(invoked') = 1
              /\ invoked'[1].fn = Bound(d_key)
              /\ invoked'[1].fn \notin Replaced(d_key))
        /\ (pc \in BindPcs =>
              \A i \in Slots \ {b_key} :
                 /\ SlotAt(bind_key_map', i) = SlotAt(bind_key_map, i)
                 /\ (i \in keymap') = (i \in keymap))
        /\ (pc = "bk71" => callback(b_key) = b_cb)
      ]_vars

C3_Witness ==
    /\ pc = "cb"
    /\ d_key = NumSlots - 1
    /\ Replaced(d_key) = {"h1"}
    /\ invoked = <<[fn |-> "h2", args |-> <<d_count, d_key>>]>>
    /\ callback(0) = "h1"

\* C4 (as claimed): outside a bind_key call, the references the module holds
\* on a callable are as many as the slots that hold it.
C4_OneReferencePerStoredHandler ==
    pc \notin BindPcs =>
        \A h \in Callables : refs[h] = Cardinality(SlotsHolding(h))

\* C5: a dispatch returns 0 with no error pending whether the callable
\* returned or raised; a failed call changes no slot, interception or
\* reference count; and after it every intercepted key can be dispatched,
\* the press that follows a failed dispatch calling its callable as usual.
C5_HandlerFailureIsAbsorbed ==
    [][ /\ (pc = "h41" =>
              /\ pc' = "rl"
              /\ ret' = <<"int", 0>>
              /\ err' = NoError
              /\ current' = NULL
              /\ (d_result = NULL =>
                    /\ bind_key_map' = bind_key_map
                    /\ keymap' = keymap
                    /\ refs' = refs)
              /\ \A k \in keymap' :
                    /\ SlotAt(bind_key_map', k).callback # NULL
                    /\ SlotAt(bind_key_map', k).tstate # NULL)
        /\ (pc' = "rl" => err' = NoError)
        /\ (prev_failed /\ pc = "h38" => pc' = "h39")
        /\ (prev_failed /\ pc = "h39" =>
              /\ pc' = "cb"
              /\ invoked' = <<[fn |-> Bound(d_key), args |-> <<d_count, d_key>>]>>)
      ]_vars

C5_Witness ==
    /\ pc = "rl"
    /\ prev_failed
    /\ d_result = "value"
    /\ d_key = 0
    /\ invoked = <<[fn |-> "h2", args |-> <<1, 0>>]>>
    /\ callback(NumSlots - 1) = "h1"
    /\ ret = <<"int", 0>>
    /\ err = NoError

\* C6: cursor(p) sets rl_point to min(max(p, 0), rl_end), a value in
\* 0..rl_end, and returns it; rl_end, the slots and the intercepted keys stay.
C6_CursorClampsIntoBuffer ==
    [][ \A p \in Offsets :
          Cursor(<<p>>) =>
             /\ rl_point' = Min(Max(p, 0), rl_end)
             /\ rl_point' \in 0 .. rl_end
             /\ ret' = <<"int", rl_point'>>
             /\ rl_end' = rl_end
             /\ rl_end >= 0
             /\ bind_key_map' = bind_key_map
             /\ keymap' = keymap
      ]_vars

C6_Witness ==
    /\ last_call = <<"cursor", <<MaxLen + 2>> >>
    /\ rl_end = MaxLen
    /\ rl_point = MaxLen
    /\ ret = <<"int", MaxLen>>
    /\ keymap # {}

\* C7: cursor() returns rl_point and leaves it as it was.
C7_CursorGetLeavesPoint ==
    [][ Cursor(<< >>) =>
          /\ ret' = <<"int", rl_point>>
          /\ rl_point' = rl_point
          /\ rl_end' = rl_end
      ]_vars

C7_Witness ==
    /\ last_call = <<"cursor", << >> >>
    /\ ret = <<"int", MaxLen>>
    /\ rl_point = MaxLen
    /\ rl_end = MaxLen
    /\ pc = "cb"

\* C8 (as the docstring claims): the callable is called with one argument,
\* the count.
C8_CallbackGetsCountOnly ==
    \A i \in 1 .. Len(invoked) : invoked[i].args = <<d_count>>

\* C9: the dispatch restores the thread state of the pressed key's slot
\* before the call and saves it into that slot after; a callback runs only
\* with a current thread state, the engine's loop only without one, the
\* thread state is never restored while one is current, and a slot's thread
\* state is written only by a registration (the thread state current then)
\* and by the end of a dispatch of that key (the one it saved).
C9_ContextSwitchBracketsHandler ==
    [][ /\ pc' # "abort"
        /\ (pc' \in {"py", "cb", "h39", "h41"} \cup BindPcs => current' # NULL)
        /\ (pc' \in {"rl", "h38"} => current' = NULL)
        /\ (current' # current => pc \in {"py", "rl", "h38", "h41"})
        /\ (pc = "h38" =>
              /\ current = NULL
              /\ tstate(d_key) # NULL
              /\ current' = tstate(d_key)
              /\ pc' = "h39")
        /\ (pc = "h41" =>
              /\ current # NULL
              /\ current' = NULL
              /\ SlotAt(bind_key_map', d_key).tstate = current
              /\ \A i \in Slots \ {d_key} :
                    SlotAt(bind_key_map', i) = SlotAt(bind_key_map, i)
              /\ pc' = "rl")
        /\ (pc = "bk68" => SlotAt(bind_key_map', b_key).tstate = current)
        /\ (bind_key_map' # bind_key_map => pc \in {"bk68", "h41"})
      ]_vars

C9_Witness ==
    /\ pc = "cb"
    /\ prev_failed
    /\ current = tstate(d_key)
    /\ current \in Tokens

\* C10: every key the engine intercepts has a callable and a thread state in
\* its slot, in every state, those inside a bind_key call included (the slot
\* is written before rl_bind_key); no dispatch finds an empty slot.
C10_InterceptedKeysHaveSlots ==
    /\ pc # "abort"
    /\ \A k \in keymap :
          /\ k \in Slots
          /\ callback(k) \in Callables
          /\ tstate(k) \in Tokens

C10_Witness ==
    /\ pc = "bk71"
    /\ caller = "cb"
    /\ b_key # d_key
    /\ keymap = {b_key, d_key}
    /\ forced
====
